---- MODULE Spec2Model ----
(***************************************************************************)
(* Model of the HAR-to-APM trace mapper (api-tracer.js) and of the report  *)
(* viewer's graph aggregation (report-logic.js).                           *)
(*                                                                         *)
(* Strings that the code takes apart or puts together (URLs that are       *)
(* trimmed, node keys that are formatted and edge keys that are split) are *)
(* sequences of tokens, so that trim, concatenation and split are computed *)
(* and not assumed.  JavaScript's null / undefined is the record Null.     *)
(***************************************************************************)
EXTENDS Integers, Sequences, FiniteSets, TLC

VARIABLES
    \* ---- api-tracer.js, one processSingleHar run ----
    allRequests,      \* what parseHarFile returned for the HAR file
    pc,               \* "start" | "query" | "done"
    ids,              \* Array.from(idToUrlsMap.keys())
    queryLog,         \* the querySplunkApm calls made so far: <<[id, outcome]>>
    traceDataCache,   \* Map correlationId -> tracedUrls
    report,           \* the value processSingleHar resolves to
    \* ---- api-tracer.js, main ----
    harFiles,         \* args.slice(2); the file at position i has path i
    fileIdx,          \* position in harFiles of the file of the current iteration
    mainPc,           \* "loop" | "run" | "written" ("single": processSingleHar alone)
    zipEntries,       \* the zip.addFile calls made so far: <<[name, data]>>
    consoleLog,       \* the per-file console lines written so far: <<[tag, file]>>
    archive,          \* what zip.writeZip wrote: [written |-> FALSE], or [written, entries]
    \* ---- parseApmResponse applied to one response ----
    rInput,           \* the jsonResponse handed to parseApmResponse
    rReturned,        \* whether parseApmResponse has returned
    rOutput,          \* what it returned (<<>> before the call)
    \* ---- report-logic.js ----
    currentDataItems, \* let currentDataItems
    networkDisplay,   \* networkContainer.style.display
    cy,               \* the Cytoscape instance: [exists |-> FALSE], or [exists, elements]
    currentMetadata,  \* let currentMetadata
    availableReports, \* let availableReports: filename -> report
    selector,         \* the reportSelector element: [options, value, display]
    loads             \* the loads started so far, the default zip first: <<[file, phase, pending]>>

vars == <<allRequests, pc, ids, queryLog, traceDataCache, report,
          harFiles, fileIdx, mainPc, zipEntries, consoleLog, archive,
          rInput, rReturned, rOutput, currentDataItems, networkDisplay, cy,
          currentMetadata, availableReports, selector, loads>>

tracerVars  == <<allRequests, pc, ids, queryLog, traceDataCache, report>>
mainVars    == <<harFiles, fileIdx, mainPc, zipEntries, consoleLog, archive>>
reducerVars == <<rInput, rReturned, rOutput>>
registryVars == <<currentMetadata, availableReports, selector, loads>>
viewerVars  == <<currentDataItems, networkDisplay, cy, registryVars>>

\* let currentMetadata = {}, and an object without properties in general.
EmptyObject == [empty |-> TRUE]

Null == [null |-> TRUE]

(***************************************************************************)
(* Bounds                                                                  *)
(***************************************************************************)
MaxRequests == 3      \* candidate requests in one HAR file
MaxSpans == 2         \* spans in one trace handed to the reducer
MaxItems == 2         \* report items in the viewer's current report

\* (totalDuration / count / 1000): microseconds in a millisecond.
MicrosPerMs == 1000

(***************************************************************************)
(* Generic sequence helpers                                                *)
(***************************************************************************)
Range(s) == { s[i] : i \in DOMAIN s }

Count(s, x) == Cardinality({ i \in DOMAIN s : s[i] = x })

\* All sequences over S of length 0..n.
SeqsUpTo(S, n) == UNION { [1..k -> S] : k \in 0..n }

(***************************************************************************)
(* Strings as token sequences                                              *)
(***************************************************************************)
\* String.prototype.trim: leading and trailing white space removed.
RECURSIVE TrimStart(_)
TrimStart(str) ==
    IF str # <<>> /\ Head(str) = " " THEN TrimStart(Tail(str)) ELSE str

RECURSIVE TrimEnd(_)
TrimEnd(str) ==
    IF str # <<>> /\ str[Len(str)] = " "
    THEN TrimEnd(SubSeq(str, 1, Len(str) - 1))
    ELSE str

Trim(str) == TrimEnd(TrimStart(str))

UpperToken(t) ==
    CASE t = "get"  -> "GET"
      [] t = "post" -> "POST"
      [] OTHER      -> t

\* String.prototype.toUpperCase.
ToUpperCase(str) == [i \in DOMAIN str |-> UpperToken(str[i])]

(***************************************************************************)
(* api-tracer.js: parseApmResponse                                         *)
(*                                                                         *)
(* jsonResponse is [spans |-> P] where P describes data?.trace?.spans:     *)
(*   [kind |-> "missing"]                    absent, null or another falsy *)
(*   [kind |-> "string", parses, value]      a string; parses says whether *)
(*                                           JSON.parse accepts it, value  *)
(*                                           is what it decodes to         *)
(*   [kind |-> "value", value]               a value given directly        *)
(* and a value is [isArray |-> FALSE] or [isArray |-> TRUE, items |-> s].  *)
(* A span is [spanID, references, hasTags, tags, duration, startTime]; an  *)
(* absent duration or startTime is 0, which is what the code makes of it.  *)
(***************************************************************************)
Sentinel(text) == [method |-> <<"N/A">>, url |-> <<text>>, duration |-> 0]

NoSpansFound     == Sentinel("- No spans found -")
ErrorParsingJson == Sentinel("- Error parsing spans JSON -")
NoLeafTraces     == Sentinel("- No leaf node traces found -")
NoTraceData      == Sentinel("- No trace data found -")
ErrorFetching    == Sentinel("- Error fetching data -")

ApiError(status) ==
    [method |-> <<"N/A">>, url |-> <<"- Splunk API Error ", status, " -">>,
     duration |-> 0]

\* The CHILD_OF targets of one span's references.
ChildOfTargets(s) ==
    { s.references[i].spanID :
        i \in { j \in DOMAIN s.references : s.references[j].refType = "CHILD_OF" } }

\* Mutant: every reference counts, whatever its refType.
ParentSpanIds_AnyRefType(spans) ==
    UNION { { s.references[i].spanID : i \in DOMAIN s.references } : s \in Range(spans) }

\* const parentSpanIds = new Set(); spans.forEach(... add(r.spanID) ...)
ParentSpanIds(spans) == UNION { ChildOfTargets(s) : s \in Range(spans) }

RECURSIVE FindTag(_, _, _)
\* Array.prototype.find over the tags, from index i: the first tag with this
\* key (and, when needValue, a non-empty value), or Null.
FindTag(tags, i, want) ==
    IF i > Len(tags) THEN Null
    ELSE IF tags[i].key = want.key /\ (want.needValue => tags[i].value # <<>>)
         THEN tags[i]
         ELSE FindTag(tags, i + 1, want)

UrlTag(s) == FindTag(s.tags, 1, [key |-> "url.full", needValue |-> TRUE])

MethodTag(s) == FindTag(s.tags, 1, [key |-> "http.request.method", needValue |-> FALSE])

\* Mutant: the parent set is not consulted.
IsLeafCandidate_IgnoreParents(s, parents) ==
    /\ s.hasTags
    /\ UrlTag(s) # Null

\* The condition under which a span reaches the seenUrls update.
IsLeafCandidate(s, parents) ==
    /\ s.spanID \notin parents
    /\ s.hasTags
    /\ UrlTag(s) # Null

\* The entry the code builds for a leaf candidate.
LeafEntry(s) ==
    [method    |-> ToUpperCase(IF MethodTag(s) # Null THEN MethodTag(s).value ELSE <<"N/A">>),
     url       |-> Trim(UrlTag(s).value),
     duration  |-> s.duration,
     startTime |-> s.startTime]

\* Position of url among the Map's keys (insertion order), or 0.
MapIndex(seen, url) ==
    LET hits == { i \in DOMAIN seen : seen[i].url = url }
    IN  IF hits = {} THEN 0 ELSE CHOOSE i \in hits : TRUE

\* Mutant: a later occurrence with an equal start time replaces the earlier one.
SeenUrlsPut_TieLast(seen, e) ==
    LET k == MapIndex(seen, e.url)
    IN  IF k = 0 THEN Append(seen, e)
        ELSE IF seen[k].startTime >= e.startTime THEN [seen EXCEPT ![k] = e]
        ELSE seen

\* if (!seenUrls.has(url) || seenUrls.get(url).startTime > startTime) seenUrls.set(url, ...)
\* A Map keeps a replaced key at its position.
SeenUrlsPut(seen, e) ==
    LET k == MapIndex(seen, e.url)
    IN  IF k = 0 THEN Append(seen, e)
        ELSE IF seen[k].startTime > e.startTime THEN [seen EXCEPT ![k] = e]
        ELSE seen

RECURSIVE SeenUrls(_, _, _, _)
\* spans.forEach(s => ...) from index i on, with the Map so far.
SeenUrls(spans, i, parents, seen) ==
    IF i > Len(spans) THEN seen
    ELSE SeenUrls(spans, i + 1, parents,
                  IF IsLeafCandidate(spans[i], parents)
                  THEN SeenUrlsPut(seen, LeafEntry(spans[i]))
                  ELSE seen)

RECURSIVE InsertByStart(_, _)
\* Insert e behind every element that does not start later: a stable sort step.
InsertByStart(sorted, e) ==
    IF sorted = <<>> THEN <<e>>
    ELSE IF Head(sorted).startTime - e.startTime > 0
         THEN <<e>> \o sorted
         ELSE <<Head(sorted)>> \o InsertByStart(Tail(sorted), e)

RECURSIVE SortByStart(_, _)
\* traces.sort((a, b) => a.startTime - b.startTime); Array.prototype.sort is stable.
SortByStart(traces, acc) ==
    IF traces = <<>> THEN acc
    ELSE SortByStart(Tail(traces), InsertByStart(acc, Head(traces)))

\* The part of parseApmResponse that runs on an array of spans.
ReduceSpans(spans) ==
    LET traces == SeenUrls(spans, 1, ParentSpanIds(spans), <<>>)
    IN  IF Len(traces) = 0 THEN <<NoLeafTraces>> ELSE SortByStart(traces, <<>>)

\* Mutant: an empty result is returned as it is.
parseApmResponse_NoSentinel(jsonResponse) ==
    LET p == jsonResponse.spans
    IN  IF p.kind = "missing" THEN <<NoSpansFound>>
        ELSE IF p.kind = "string" /\ ~p.parses THEN <<ErrorParsingJson>>
        ELSE IF ~p.value.isArray THEN <<NoSpansFound>>
        ELSE SortByStart(SeenUrls(p.value.items, 1, ParentSpanIds(p.value.items), <<>>), <<>>)

parseApmResponse(jsonResponse) ==
    LET p == jsonResponse.spans
    IN  IF p.kind = "missing" THEN <<NoSpansFound>>
        ELSE IF p.kind = "string" /\ ~p.parses THEN <<ErrorParsingJson>>
        ELSE IF ~p.value.isArray THEN <<NoSpansFound>>
        ELSE ReduceSpans(p.value.items)

(***************************************************************************)
(* Inputs of the reducer: every trace of up to MaxSpans spans.  Span i of  *)
(* a trace has spanID i (identifiers are unique within a trace) and        *)
(* duration 10 * (i - 1), which tells the spans of a trace apart; its      *)
(* references, tags and start time are enumerated.  A reference points at  *)
(* another span of the trace or at 0, the identifier of a span that is not *)
(* in the response.                                                        *)
(***************************************************************************)
Str(t) == <<t>>

Tag(k, v) == [key |-> k, value |-> v]

TagChoices ==
    { [hasTags |-> FALSE, tags |-> <<>>],
      [hasTags |-> TRUE,  tags |-> <<Tag("http.request.method", Str("get"))>>],
      [hasTags |-> TRUE,  tags |-> <<Tag("url.full", <<>>), Tag("url.full", Str("u")),
                                     Tag("http.request.method", Str("get"))>>],
      [hasTags |-> TRUE,  tags |-> <<Tag("url.full", <<"u", " ">>)>>],
      [hasTags |-> TRUE,  tags |-> <<Tag("http.request.method", Str("POST")),
                                     Tag("url.full", Str("v"))>>] }

StartTimes == {50, 100}

Ref(type, target) == [refType |-> type, spanID |-> target]

RefChoices(i, n) ==
    {<<>>}
    \cup { <<Ref("CHILD_OF", j)>> : j \in (0..n) \ {i} }
    \cup { <<Ref("FOLLOWS_FROM", IF n = 1 THEN 0 ELSE (i % n) + 1)>> }

SpanChoices(i, n) ==
    { [spanID |-> i, references |-> r, hasTags |-> t.hasTags, tags |-> t.tags,
       duration |-> 10 * (i - 1), startTime |-> st] :
        r \in RefChoices(i, n), t \in TagChoices, st \in StartTimes }

Traces(n) ==
    { tr \in [1..n -> UNION { SpanChoices(i, n) : i \in 1..n }] :
        \A i \in 1..n : tr[i].spanID = i }

AllTraces == UNION { Traces(n) : n \in 0..MaxSpans }

NotAnArray == [isArray |-> FALSE]

ArrayOf(spans) == [isArray |-> TRUE, items |-> spans]

Direct(v) == [spans |-> [kind |-> "value", value |-> v]]

Encoded(v) == [spans |-> [kind |-> "string", parses |-> TRUE, value |-> v]]

MissingSpans == [spans |-> [kind |-> "missing"]]

Unparsable == [spans |-> [kind |-> "string", parses |-> FALSE, value |-> NotAnArray]]

\* Every trace given directly; the short ones also as an encoded string.
ReducerInputs ==
    { MissingSpans, Unparsable, Direct(NotAnArray), Encoded(NotAnArray) }
    \cup { Direct(ArrayOf(tr)) : tr \in AllTraces }
    \cup { Encoded(ArrayOf(tr)) : tr \in UNION { Traces(n) : n \in 0..1 } }

InitReducer ==
    /\ rInput \in ReducerInputs
    /\ rReturned = FALSE
    /\ rOutput = <<>>
    /\ allRequests = <<>> /\ pc = "idle" /\ ids = <<>> /\ queryLog = <<>>
    /\ traceDataCache = <<>> /\ report = Null
    /\ harFiles = <<>> /\ fileIdx = 0 /\ mainPc = "idle" /\ zipEntries = <<>>
    /\ consoleLog = <<>> /\ archive = [written |-> FALSE]
    /\ currentDataItems = <<>> /\ networkDisplay = "none" /\ cy = [exists |-> FALSE]
    /\ currentMetadata = EmptyObject /\ availableReports = <<>>
    /\ selector = [options |-> <<>>, value |-> "", display |-> "none"] /\ loads = <<>>

\* One call of parseApmResponse.
Reduce ==
    /\ ~rReturned
    /\ rReturned' = TRUE
    /\ rOutput' = parseApmResponse(rInput)
    /\ UNCHANGED <<rInput, tracerVars, mainVars, viewerVars>>

NextReducer == Reduce

SpecReducer == InitReducer /\ [][NextReducer]_vars

(***************************************************************************)
(* Claims about the reducer, checked under SpecReducer                     *)
(***************************************************************************)
\* The span list of the input, when the input holds one.
HoldsSpanList(in) ==
    /\ in.spans.kind # "missing"
    /\ (in.spans.kind = "string" => in.spans.parses)
    /\ in.spans.value.isArray

InputSpans(in) == in.spans.value.items

\* Stated from the specification's words, not from the code's steps:
\* some other span of the list names s as its parent.
NamedAsParent(s, spans) ==
    \E i \in DOMAIN spans :
        /\ spans[i] # s
        /\ \E k \in DOMAIN spans[i].references :
              /\ spans[i].references[k].refType = "CHILD_OF"
              /\ spans[i].references[k].spanID = s.spanID

\* s carries a url.full tag with a non-empty value.
CarriesUrl(s) ==
    s.hasTags /\ \E k \in DOMAIN s.tags : s.tags[k].key = "url.full" /\ s.tags[k].value # <<>>

\* Indices of the leaf candidates of a span list.
Candidates(spans) ==
    { i \in DOMAIN spans : ~NamedAsParent(spans[i], spans) /\ CarriesUrl(spans[i]) }

CandidateUrl(s) == Trim(UrlTag(s).value)

IsSentinelCall(c) ==
    /\ DOMAIN c = {"method", "url", "duration"}
    /\ c.method = <<"N/A">>
    /\ c.duration = 0
    /\ c.url \in { <<"- No spans found -">>, <<"- Error parsing spans JSON -">>,
                   <<"- No leaf node traces found -">> }

Retained(spans, u) ==
    LET same == { i \in Candidates(spans) : CandidateUrl(spans[i]) = u }
    IN  CHOOSE i \in same :
            \A j \in same :
                \/ spans[i].startTime < spans[j].startTime
                \/ (spans[i].startTime = spans[j].startTime /\ i <= j)

\* C4: the reducer's output holds at most one TracedCall per distinct trimmed
\* URL, and for each URL of a leaf candidate it holds exactly the candidate
\* with the smallest start time among those with that URL, the first one in
\* the span list when several share that start time.
C4_DedupKeepsEarliest ==
    (rReturned /\ HoldsSpanList(rInput)) =>
        LET spans == InputSpans(rInput)
            cand  == Candidates(spans)
        IN  /\ \A j, k \in DOMAIN rOutput : rOutput[j].url = rOutput[k].url => j = k
            /\ cand # {} =>
                  /\ \A i \in cand :
                        \E k \in DOMAIN rOutput :
                            LET w == spans[Retained(spans, CandidateUrl(spans[i]))]
                            IN  /\ rOutput[k].url = CandidateUrl(spans[i])
                                /\ rOutput[k].startTime = w.startTime
                                /\ rOutput[k].duration = w.duration
                  /\ \A k \in DOMAIN rOutput :
                        \E i \in cand : rOutput[k].url = CandidateUrl(spans[i])

\* Witness of C4: two leaf candidates with the same trimmed URL and the same
\* start time were reduced to one call.
C4_Witness ==
    /\ rReturned
    /\ HoldsSpanList(rInput)
    /\ \E i, j \in Candidates(InputSpans(rInput)) :
          /\ i < j
          /\ CandidateUrl(InputSpans(rInput)[i]) = CandidateUrl(InputSpans(rInput)[j])
          /\ InputSpans(rInput)[i].startTime = InputSpans(rInput)[j].startTime
    /\ Len(rOutput) = 1

\* C5: a span's identifier is in the parent set the reducer computes if and
\* only if some other span of the same list references it as its parent.
C5_ParentSetIffReferenced ==
    (rReturned /\ HoldsSpanList(rInput)) =>
        \A i \in DOMAIN InputSpans(rInput) :
            InputSpans(rInput)[i].spanID \in ParentSpanIds(InputSpans(rInput))
                <=> NamedAsParent(InputSpans(rInput)[i], InputSpans(rInput))

\* Witness of C5: a reduced list in which one span is a parent, one is not, and
\* one is referenced by a reference that is not CHILD_OF.
C5_Witness ==
    /\ rReturned
    /\ HoldsSpanList(rInput)
    /\ \E i, j \in DOMAIN InputSpans(rInput) :
          /\ InputSpans(rInput)[i].spanID \in ParentSpanIds(InputSpans(rInput))
          /\ InputSpans(rInput)[j].spanID \notin ParentSpanIds(InputSpans(rInput))
          /\ \E k \in DOMAIN InputSpans(rInput)[i].references :
                /\ InputSpans(rInput)[i].references[k].refType = "FOLLOWS_FROM"
                /\ InputSpans(rInput)[i].references[k].spanID = InputSpans(rInput)[j].spanID

(***************************************************************************)
(* api-tracer.js: querySplunkApm                                           *)
(*                                                                         *)
(* What the backend does with one query is an outcome:                     *)
(*   [kind |-> "reject"]                          fetch rejects            *)
(*   [kind |-> "response", ok, status, valid, body]                        *)
(* where valid says whether response.json() resolves and body is the       *)
(* jsonResponse it resolves to.  Any exception raised inside the try block *)
(* takes the path of a rejected response.json().                           *)
(***************************************************************************)
Rejected == [kind |-> "reject"]

Response(ok, status, valid, body) ==
    [kind |-> "response", ok |-> ok, status |-> status, valid |-> valid, body |-> body]

\* Mutant: the catch block returns an empty list.
querySplunkApm_EmptyOnError(outcome) ==
    IF outcome.kind = "reject" THEN <<>>
    ELSE IF ~outcome.valid THEN <<>>
    ELSE IF ~outcome.ok THEN <<ApiError(outcome.status)>>
    ELSE parseApmResponse(outcome.body)

\* response.json() is awaited before response.ok is looked at, and both it and
\* fetch are inside the try block.
querySplunkApm(outcome) ==
    IF outcome.kind = "reject" THEN <<ErrorFetching>>
    ELSE IF ~outcome.valid THEN <<ErrorFetching>>
    ELSE IF ~outcome.ok THEN <<ApiError(outcome.status)>>
    ELSE parseApmResponse(outcome.body)

(***************************************************************************)
(* api-tracer.js: processSingleHar                                         *)
(*                                                                         *)
(* startedDateTime is an ISO 8601 string, here [local, tz]: a wall-clock   *)
(* reading and the zone offset written behind it.  new Date(...) turns it  *)
(* into the instant local - tz.                                            *)
(***************************************************************************)
DateValue(startedDateTime) == startedDateTime.local - startedDateTime.tz

RECURSIVE GroupIdsFrom(_, _, _)
GroupIdsFrom(reqs, i, keys) ==
    IF i > Len(reqs) THEN keys
    ELSE GroupIdsFrom(reqs, i + 1,
                      IF reqs[i].id \in Range(keys) THEN keys ELSE Append(keys, reqs[i].id))

\* Mutant: every request contributes a key.
GroupIds_NoDedup(reqs) == [i \in DOMAIN reqs |-> reqs[i].id]

\* Array.from(idToUrlsMap.keys()): the identifiers in the order of their first request.
GroupIds(reqs) == GroupIdsFrom(reqs, 1, <<>>)

\* Map.prototype.set
MapSet(map, key, value) == (key :> value) @@ map

\* Mutant: the cache is looked up under a key that is never set.
BuildItem_WrongKey(req, cache) ==
    [sourceUrl       |-> req.sourceUrl,
     method          |-> req.method,
     correlationId   |-> req.id,
     cacheControl    |-> req.cacheControl,
     startedDateTime |-> req.startedDateTime,
     harResponseTime |-> req.harResponseTime,
     tracedUrls      |-> <<NoTraceData>>]

\* results.push({...}) for one request.
BuildItem(req, cache) ==
    LET tracedUrls == IF req.id \in DOMAIN cache THEN cache[req.id] ELSE <<NoTraceData>>
    IN  [sourceUrl       |-> req.sourceUrl,
         method          |-> req.method,
         correlationId   |-> req.id,
         cacheControl    |-> req.cacheControl,
         startedDateTime |-> req.startedDateTime,
         harResponseTime |-> req.harResponseTime,
         tracedUrls      |-> IF Len(tracedUrls) > 0 THEN tracedUrls ELSE <<NoLeafTraces>>]

BuildResults(reqs, cache) == [i \in DOMAIN reqs |-> BuildItem(reqs[i], cache)]

RECURSIVE InsertByDate(_, _)
InsertByDate(sorted, x) ==
    IF sorted = <<>> THEN <<x>>
    ELSE IF DateValue(Head(sorted).startedDateTime) - DateValue(x.startedDateTime) > 0
         THEN <<x>> \o sorted
         ELSE <<Head(sorted)>> \o InsertByDate(Tail(sorted), x)

RECURSIVE SortFrom(_, _)
SortFrom(results, acc) ==
    IF results = <<>> THEN acc
    ELSE SortFrom(Tail(results), InsertByDate(acc, Head(results)))

RECURSIVE InsertByText(_, _)
InsertByText(sorted, x) ==
    IF sorted = <<>> THEN <<x>>
    ELSE IF \/ Head(sorted).startedDateTime.local > x.startedDateTime.local
            \/ /\ Head(sorted).startedDateTime.local = x.startedDateTime.local
               /\ Head(sorted).startedDateTime.tz > x.startedDateTime.tz
         THEN <<x>> \o sorted
         ELSE <<Head(sorted)>> \o InsertByText(Tail(sorted), x)

RECURSIVE SortResults_ByText(_)
\* Mutant: the strings are compared, not the instants they denote.
SortResults_ByText(results) ==
    IF results = <<>> THEN <<>>
    ELSE InsertByText(SortResults_ByText(SubSeq(results, 1, Len(results) - 1)),
                      results[Len(results)])

\* results.sort((a, b) => new Date(a.startedDateTime) - new Date(b.startedDateTime));
\* Array.prototype.sort is stable.
SortResults(results) == SortFrom(results, <<>>)

\* Mutant: the end of the trace is taken from the first item.
Metadata_EndFromFirst(results) ==
    [filename       |-> "capture.har",
     generatedAt    |-> "now",
     filterDomain   |-> "regex",
     traceStartTime |-> IF Len(results) > 0 THEN results[1].startedDateTime ELSE Null,
     traceEndTime   |-> IF Len(results) > 0 THEN results[1].startedDateTime ELSE Null,
     totalRequests  |-> Len(results)]

\* The metadata object; the file name, the clock and the filter are fixed.
Metadata(results) ==
    [filename       |-> "capture.har",
     generatedAt    |-> "now",
     filterDomain   |-> "regex",
     traceStartTime |-> IF Len(results) > 0 THEN results[1].startedDateTime ELSE Null,
     traceEndTime   |-> IF Len(results) > 0 THEN results[Len(results)].startedDateTime ELSE Null,
     totalRequests  |-> Len(results)]

\* Steps 4 to 6 of processSingleHar and its return value.
AssembleReport(reqs, cache) ==
    LET results == SortResults(BuildResults(reqs, cache))
    IN  [metadata |-> Metadata(results), data |-> results]

(***************************************************************************)
(* Inputs of one run                                                       *)
(***************************************************************************)
CorrelationIds == {"abc", "def"}

\* Instants 2, 2 and 1: two readings of one instant in different zones, and a
\* later reading that denotes an earlier instant.
Timestamps == { [local |-> 2, tz |-> 0], [local |-> 3, tz |-> 1], [local |-> 3, tz |-> 2] }

SourceUrlOf(i) == <<"https://api.example.com/r", i>>

\* The i-th candidate request of the file, as parseHarFile pushes it.
Request(i, id, startedDateTime) ==
    [id |-> id, cacheControl |-> "N/A", startedDateTime |-> startedDateTime,
     sourceUrl |-> SourceUrlOf(i), method |-> "GET", harResponseTime |-> 0]

RequestLists ==
    UNION { { [i \in 1..n |-> Request(i, f[i][1], f[i][2])] :
                f \in [1..n -> CorrelationIds \X Timestamps] } : n \in 0..MaxRequests }

\* Span 1 and span 3 are leaves under span 2 with the same URL; span 3 starts earlier.
ExampleTrace ==
    << [spanID |-> 1, references |-> <<Ref("CHILD_OF", 2)>>, hasTags |-> TRUE,
        tags |-> <<Tag("url.full", <<"https://x/1">>), Tag("http.request.method", Str("get"))>>,
        duration |-> 7, startTime |-> 100],
       [spanID |-> 2, references |-> <<>>, hasTags |-> TRUE,
        tags |-> <<Tag("http.request.method", Str("get"))>>,
        duration |-> 20, startTime |-> 40],
       [spanID |-> 3, references |-> <<Ref("CHILD_OF", 2)>>, hasTags |-> TRUE,
        tags |-> <<Tag("url.full", <<"https://x/1">>), Tag("http.request.method", Str("get"))>>,
        duration |-> 9, startTime |-> 50] >>

Outcomes ==
    { Rejected,
      Response(FALSE, "500", FALSE, MissingSpans),
      Response(FALSE, "500", TRUE, MissingSpans),
      Response(TRUE, "200", FALSE, MissingSpans),
      Response(TRUE, "200", TRUE, MissingSpans),
      Response(TRUE, "200", TRUE, Unparsable),
      Response(TRUE, "200", TRUE, Direct(ArrayOf(<<>>))),
      Response(TRUE, "200", TRUE, Encoded(ArrayOf(ExampleTrace))) }

Init ==
    /\ allRequests \in RequestLists
    /\ pc = "start"
    /\ ids = <<>>
    /\ queryLog = <<>>
    /\ traceDataCache = <<>>
    /\ report = Null
    /\ harFiles = <<>> /\ fileIdx = 0 /\ mainPc = "single" /\ zipEntries = <<>>
    /\ consoleLog = <<>> /\ archive = [written |-> FALSE]
    /\ rInput = MissingSpans /\ rReturned = FALSE /\ rOutput = <<>>
    /\ currentDataItems = <<>> /\ networkDisplay = "none" /\ cy = [exists |-> FALSE]
    /\ currentMetadata = EmptyObject /\ availableReports = <<>>
    /\ selector = [options |-> <<>>, value |-> "", display |-> "none"] /\ loads = <<>>

\* processSingleHar up to its first await: the early return, with its console
\* warning, for a file without candidate requests, or the grouping by identifier.
Start ==
    /\ pc = "start"
    /\ \/ /\ Len(allRequests) = 0
          /\ pc' = "done"
          /\ report' = Null
          /\ consoleLog' = Append(consoleLog, [tag |-> "Info", file |-> fileIdx])
          /\ UNCHANGED ids
       \/ /\ Len(allRequests) > 0
          /\ ids' = GroupIds(allRequests)
          /\ pc' = "query"
          /\ UNCHANGED <<report, consoleLog>>
    /\ UNCHANGED <<allRequests, queryLog, traceDataCache, reducerVars, viewerVars>>
    /\ UNCHANGED <<harFiles, fileIdx, mainPc, zipEntries, archive>>

\* One iteration of the query loop: querySplunkApm is awaited for the next
\* identifier and its result cached.  After the last identifier the same
\* continuation builds, sorts and returns the report.
QueryNext ==
    /\ pc = "query"
    /\ Len(queryLog) < Len(ids)
    /\ \E outcome \in Outcomes :
          LET correlationId == ids[Len(queryLog) + 1]
              tracedUrls    == querySplunkApm(outcome)
              cache         == MapSet(traceDataCache, correlationId, tracedUrls)
          IN  /\ queryLog' = Append(queryLog, [id |-> correlationId, outcome |-> outcome])
              /\ traceDataCache' = cache
              /\ IF Len(queryLog) + 1 = Len(ids)
                 THEN /\ report' = AssembleReport(allRequests, cache)
                      /\ pc' = "done"
                 ELSE UNCHANGED <<report, pc>>
    /\ UNCHANGED <<allRequests, ids, mainVars, reducerVars, viewerVars>>

Next == Start \/ QueryNext

Spec == Init /\ [][Next]_vars

(***************************************************************************)
(* Claims about one processSingleHar run, checked under Spec               *)
(***************************************************************************)
\* Positions of allRequests at which an identifier occurs for the first time.
FirstPositions ==
    { i \in DOMAIN allRequests : \A j \in 1..(i - 1) : allRequests[j].id # allRequests[i].id }

\* The distinct identifiers in the order of their first occurrence.
FirstOccurrences ==
    [k \in 1..Cardinality(FirstPositions) |->
        allRequests[CHOOSE p \in FirstPositions :
                        Cardinality({ q \in FirstPositions : q < p }) = k - 1].id]

QueriedIds == [k \in DOMAIN queryLog |-> queryLog[k].id]

\* C1: within one run querySplunkApm is invoked at most once per distinct
\* correlation identifier, in the order of the identifiers' first occurrence
\* among the requests, and by the end of the run exactly once for each.
C1_OneQueryPerIdInOrder ==
    /\ \A j, k \in DOMAIN queryLog : queryLog[j].id = queryLog[k].id => j = k
    /\ Len(queryLog) <= Len(FirstOccurrences)
    /\ QueriedIds = SubSeq(FirstOccurrences, 1, Len(queryLog))
    /\ pc = "done" => QueriedIds = FirstOccurrences

\* Witness of C1: a finished run in which three requests carry two
\* identifiers and the shared identifier was queried once.
C1_Witness ==
    /\ pc = "done"
    /\ Len(allRequests) = 3
    /\ allRequests[1].id = allRequests[3].id
    /\ allRequests[1].id # allRequests[2].id
    /\ Len(queryLog) = 2

\* The query failed: network error, malformed payload or non-success response.
QueryFailed(outcome) ==
    \/ outcome.kind = "reject"
    \/ ~outcome.valid
    \/ ~outcome.ok

IsFailureSentinel(c) ==
    /\ DOMAIN c = {"method", "url", "duration"}
    /\ c.method = <<"N/A">>
    /\ c.duration = 0
    /\ c.url \in { <<"- Error fetching data -">>, <<"- Splunk API Error ", "500", " -">> }

\* C2: a failing query does not raise.  Its identifier resolves to exactly one
\* sentinel TracedCall of duration 0, the run goes on to the remaining
\* identifiers and to the report, and what every other identifier resolves to
\* is decided by its own response alone.
C2_FailureIsolated ==
    /\ \A k \in DOMAIN queryLog :
          LET id      == queryLog[k].id
              outcome == queryLog[k].outcome
          IN  /\ id \in DOMAIN traceDataCache
              /\ QueryFailed(outcome) =>
                    /\ Len(traceDataCache[id]) = 1
                    /\ IsFailureSentinel(traceDataCache[id][1])
              /\ ~QueryFailed(outcome) =>
                    traceDataCache[id] = parseApmResponse(outcome.body)
    /\ (pc = "query" /\ queryLog # <<>>) => Len(queryLog) < Len(ids)
    /\ (pc = "done" /\ allRequests # <<>>) =>
          /\ Len(queryLog) = Len(ids)
          /\ report # Null

\* Witness of C2: the first identifier's query failed, the second one's
\* succeeded with real calls, and the run finished with a report.
C2_Witness ==
    /\ pc = "done"
    /\ Len(queryLog) = 2
    /\ QueryFailed(queryLog[1].outcome)
    /\ ~QueryFailed(queryLog[2].outcome)
    /\ traceDataCache[queryLog[2].id][1].url = <<"https://x/1">>
    /\ report # Null

\* What the identifier was resolved to, from the log of the queries.
ResolvedFor(id) ==
    querySplunkApm(queryLog[CHOOSE k \in DOMAIN queryLog : queryLog[k].id = id].outcome)

\* C6: the report holds exactly one item per candidate request; every item
\* carries the TracedCall sequence resolved for its correlation identifier,
\* so items sharing an identifier carry the same sequence; no item's
\* tracedUrls is empty.
C6_OneItemPerRequest ==
    (pc = "done" /\ report # Null) =>
        /\ Len(report.data) = Len(allRequests)
        /\ \A i \in DOMAIN allRequests :
              Cardinality({ k \in DOMAIN report.data :
                              /\ report.data[k].sourceUrl = allRequests[i].sourceUrl
                              /\ report.data[k].correlationId = allRequests[i].id
                              /\ report.data[k].startedDateTime = allRequests[i].startedDateTime }) = 1
        /\ \A k \in DOMAIN report.data :
              /\ report.data[k].tracedUrls = ResolvedFor(report.data[k].correlationId)
              /\ Len(report.data[k].tracedUrls) >= 1
        /\ \A j, k \in DOMAIN report.data :
              report.data[j].correlationId = report.data[k].correlationId
                  => report.data[j].tracedUrls = report.data[k].tracedUrls

\* Witness of C6: two requests share an identifier that resolved to a real
\* call, a third has another identifier.
C6_Witness ==
    /\ pc = "done"
    /\ report # Null
    /\ Len(report.data) = 3
    /\ \E j, k \in DOMAIN report.data :
          /\ j # k
          /\ report.data[j].correlationId = report.data[k].correlationId
          /\ report.data[j].tracedUrls[1].url = <<"https://x/1">>
    /\ \E j, k \in DOMAIN report.data :
          report.data[j].correlationId # report.data[k].correlationId

\* C7: the items returned are non-decreasing by the instant of their
\* startedDateTime and are a permutation of the items built from the requests.
C7_SortedPermutation ==
    (pc = "done" /\ report # Null) =>
        /\ \A k \in 1..(Len(report.data) - 1) :
              DateValue(report.data[k].startedDateTime)
                  <= DateValue(report.data[k + 1].startedDateTime)
        /\ Len(report.data) = Len(allRequests)
        /\ \A i \in DOMAIN allRequests :
              Count(report.data, BuildItem(allRequests[i], traceDataCache)) = 1

\* Witness of C7: the second request has the later wall-clock reading and the
\* earlier instant, and the sort moved it to the front.
C7_Witness ==
    /\ pc = "done"
    /\ report # Null
    /\ Len(allRequests) = 3
    /\ DateValue(allRequests[1].startedDateTime) > DateValue(allRequests[2].startedDateTime)
    /\ allRequests[2].startedDateTime.local > allRequests[1].startedDateTime.local
    /\ report.data[1].sourceUrl = allRequests[2].sourceUrl

\* C8 as stated: the metadata's traceStartTime and traceEndTime are the first
\* and the last item's startedDateTime, totalRequests is the number of items,
\* and for an empty collection there still is a report, whose metadata has
\* two null timestamps.
C8_AsStated ==
    pc = "done" =>
        /\ report # Null
        /\ report.metadata.totalRequests = Len(report.data)
        /\ IF Len(report.data) = 0
           THEN /\ report.metadata.traceStartTime = Null
                /\ report.metadata.traceEndTime = Null
           ELSE /\ report.metadata.traceStartTime = report.data[1].startedDateTime
                /\ report.metadata.traceEndTime = report.data[Len(report.data)].startedDateTime

\* C8 as amended: when there is at least one candidate request the metadata's
\* traceStartTime and traceEndTime are the first and the last item's
\* startedDateTime of the sorted collection and totalRequests is the number
\* of items; when there is none, processSingleHar returns null: no report and
\* no metadata.
C8_Metadata ==
    pc = "done" =>
        IF allRequests = <<>>
        THEN report = Null
        ELSE /\ report # Null
             /\ Len(report.data) >= 1
             /\ report.metadata.totalRequests = Len(report.data)
             /\ report.metadata.traceStartTime = report.data[1].startedDateTime
             /\ report.metadata.traceEndTime = report.data[Len(report.data)].startedDateTime
             /\ report.metadata.traceStartTime # Null
             /\ report.metadata.traceEndTime # Null

\* Witness of C8: a report whose first and last item differ in startedDateTime.
C8_Witness ==
    /\ pc = "done"
    /\ report # Null
    /\ Len(report.data) >= 2
    /\ report.metadata.traceStartTime # report.metadata.traceEndTime

\* C9 as stated: every item of the report document carries a graphData field.
C9_ItemsCarryGraphData ==
    (pc = "done" /\ report # Null) =>
        \A k \in DOMAIN report.data : "graphData" \in DOMAIN report.data[k]

(***************************************************************************)
(* report-logic.js: renderNetworkGraph                                     *)
(*                                                                         *)
(* A span of graphData is [spanId, parentId, service, taskArn, duration].  *)
(* service and taskArn are strings (token sequences); the empty string     *)
(* stands for every falsy taskArn (null, undefined, ''), and parentId 0    *)
(* for every falsy parentId.  A Map is the sequence of its entries in      *)
(* insertion order.                                                        *)
(***************************************************************************)
\* const getNodeKey = (service, taskArn) => `${service}::${taskArn || 'unknown'}`
getNodeKey(service, taskArn) ==
    service \o <<"::">> \o (IF taskArn # <<>> THEN taskArn ELSE <<"unknown">>)

\* `${sourceKey}->${targetKey}`
EdgeKey(sourceKey, targetKey) == sourceKey \o <<"->">> \o targetKey

RECURSIVE SplitArrow(_, _, _)
\* key.split('->'): the pieces of str between its '->' separators; part is the
\* piece being read.
SplitArrow(str, part, parts) ==
    IF str = <<>> THEN Append(parts, part)
    ELSE IF Head(str) = "->" THEN SplitArrow(Tail(str), <<>>, Append(parts, part))
    ELSE SplitArrow(Tail(str), Append(part, Head(str)), parts)

Split(str) == SplitArrow(str, <<>>, <<>>)

KeyIndex(map, key) ==
    LET hits == { i \in DOMAIN map : map[i].key = key }
    IN  IF hits = {} THEN 0 ELSE CHOOSE i \in hits : TRUE

\* spanToNodeKey after the first forEach over one item's graphData: the key of
\* the last span with this spanId, or Null (the Map has no such spanId).
SpanToNodeKey(graphData, spanId) ==
    LET hits == { i \in DOMAIN graphData : graphData[i].spanId = spanId }
    IN  IF hits = {} THEN [has |-> FALSE]
        ELSE LET last == CHOOSE i \in hits : \A j \in hits : j <= i
             IN  [has |-> TRUE, key |-> getNodeKey(graphData[last].service, graphData[last].taskArn)]

\* if (!taskNodes.has(key)) taskNodes.set(key, { service, taskArn })
RegisterNode(taskNodes, span) ==
    LET key == getNodeKey(span.service, span.taskArn)
    IN  IF KeyIndex(taskNodes, key) # 0 THEN taskNodes
        ELSE Append(taskNodes, [key |-> key, service |-> span.service, taskArn |-> span.taskArn])

\* Mutant: the duration of the last call replaces the running total.
AddToEdge_LastDuration(edges, edgeKey, duration) ==
    LET k == KeyIndex(edges, edgeKey)
    IN  IF k = 0
        THEN Append(edges, [key |-> edgeKey, count |-> 1, totalDuration |-> duration])
        ELSE [edges EXCEPT ![k] = [key |-> edgeKey, count |-> @.count + 1,
                                   totalDuration |-> duration]]

\* edgeData.count++; edgeData.totalDuration += (span.duration || 0); edges.set(edgeKey, edgeData)
AddToEdge(edges, edgeKey, duration) ==
    LET k == KeyIndex(edges, edgeKey)
    IN  IF k = 0
        THEN Append(edges, [key |-> edgeKey, count |-> 1, totalDuration |-> duration])
        ELSE [edges EXCEPT ![k] = [key |-> edgeKey, count |-> @.count + 1,
                                   totalDuration |-> @.totalDuration + duration]]

\* Mutant: the comparison of sourceKey with targetKey is left out.
LinkSpan_KeepSelfLoops(edges, graphData, span) ==
    IF span.parentId # 0 /\ SpanToNodeKey(graphData, span.parentId).has
    THEN AddToEdge(edges,
                   EdgeKey(SpanToNodeKey(graphData, span.parentId).key,
                           getNodeKey(span.service, span.taskArn)),
                   span.duration)
    ELSE edges

\* The body of the second forEach over one item's graphData, for one span.
LinkSpan(edges, graphData, span) ==
    IF span.parentId # 0 /\ SpanToNodeKey(graphData, span.parentId).has
    THEN LET sourceKey == SpanToNodeKey(graphData, span.parentId).key
             targetKey == getNodeKey(span.service, span.taskArn)
         IN  IF sourceKey # targetKey
             THEN AddToEdge(edges, EdgeKey(sourceKey, targetKey), span.duration)
             ELSE edges
    ELSE edges

RECURSIVE ItemNodes(_, _, _)
ItemNodes(taskNodes, graphData, i) ==
    IF i > Len(graphData) THEN taskNodes
    ELSE ItemNodes(RegisterNode(taskNodes, graphData[i]), graphData, i + 1)

RECURSIVE ItemEdges(_, _, _)
ItemEdges(edges, graphData, i) ==
    IF i > Len(graphData) THEN edges
    ELSE ItemEdges(LinkSpan(edges, graphData, graphData[i]), graphData, i + 1)

\* if (!item.graphData) return;
HasGraphData(item) == "graphData" \in DOMAIN item

RECURSIVE TaskNodes(_, _, _)
\* taskNodes after currentDataItems.forEach, from item i on.
TaskNodes(items, i, taskNodes) ==
    IF i > Len(items) THEN taskNodes
    ELSE TaskNodes(items, i + 1,
                   IF HasGraphData(items[i])
                   THEN ItemNodes(taskNodes, items[i].graphData, 1)
                   ELSE taskNodes)

RECURSIVE Edges(_, _, _)
\* edges after currentDataItems.forEach, from item i on.
Edges(items, i, edges) ==
    IF i > Len(items) THEN edges
    ELSE Edges(items, i + 1,
               IF HasGraphData(items[i])
               THEN ItemEdges(edges, items[i].graphData, 1)
               ELSE edges)

\* The ordinal of node k among the nodes of its service that have a taskArn.
ServiceCount(taskNodes, k) ==
    Cardinality({ j \in 1..k : /\ taskNodes[j].service = taskNodes[k].service
                               /\ taskNodes[j].taskArn # <<>> })

\* taskNodes.forEach((info, key) => elements.push({ data: { id, label, tooltip } }))
NodeElement(taskNodes, k) ==
    [group   |-> "nodes",
     id      |-> taskNodes[k].key,
     label   |-> IF taskNodes[k].taskArn # <<>>
                 THEN [service |-> taskNodes[k].service, ordinal |-> ServiceCount(taskNodes, k)]
                 ELSE [service |-> taskNodes[k].service, ordinal |-> 0],
     tooltip |-> IF taskNodes[k].taskArn # <<>> THEN taskNodes[k].taskArn
                 ELSE <<"Task ARN not found">>]

\* (x / y).toFixed(0) for non-negative integers: rounded to the nearest integer.
RoundDiv(x, y) == (2 * x + y) \div (2 * y)

\* edges.forEach((data, key) => { const [source, target] = key.split('->'); ... })
\* The label shows the count and the average in milliseconds.
EdgeElement(edge) ==
    [group  |-> "edges",
     source |-> Split(edge.key)[1],
     target |-> Split(edge.key)[2],
     label  |-> [calls |-> edge.count,
                 avgMs |-> IF edge.count > 0
                           THEN RoundDiv(edge.totalDuration, edge.count * MicrosPerMs)
                           ELSE 0]]

\* The elements handed to cytoscape: the nodes, then the edges.
GraphElements(items) ==
    LET taskNodes == TaskNodes(items, 1, <<>>)
        edges     == Edges(items, 1, <<>>)
    IN  [k \in DOMAIN taskNodes |-> NodeElement(taskNodes, k)]
        \o [k \in DOMAIN edges |-> EdgeElement(edges[k])]

(***************************************************************************)
(* Inputs of the graph aggregation: reports of up to MaxItems items.  An   *)
(* item has no graphData, or the spans of a trace of up to two spans; span *)
(* i has spanId i and duration i * 100000 micros.  A parentId names the    *)
(* other position, whether or not the trace has a span there.              *)
(***************************************************************************)
\* (service, taskArn) of a span: a service without task, two tasks of one
\* service, the second with an ARN in which '->' occurs, and a service with a
\* name in which '->' occurs.
NodeChoices ==
    { <<Str("gateway"), <<>>>>,
      <<Str("billing"), Str("t")>>,
      <<Str("billing"), <<"t", "->", "x">>>>,
      <<<<"x", "->", "billing">>, Str("t")>> }

GraphSpanChoices(i) ==
    { [spanId |-> i, parentId |-> par, service |-> nd[1], taskArn |-> nd[2],
       duration |-> i * 100000] :
        par \in {0} \cup ({1, 2} \ {i}), nd \in NodeChoices }

GraphTraces ==
    {<<>>}
    \cup { <<a>> : a \in GraphSpanChoices(1) }
    \cup { <<a, b>> : a \in GraphSpanChoices(1), b \in GraphSpanChoices(2) }

GraphItems ==
    { [correlationId |-> "abc"] }
    \cup { [correlationId |-> "abc", graphData |-> tr] : tr \in GraphTraces }

InitGraph ==
    /\ currentDataItems \in SeqsUpTo(GraphItems, MaxItems)
    /\ networkDisplay \in {"none", "block"}
    /\ cy = [exists |-> FALSE]
    /\ currentMetadata = EmptyObject /\ availableReports = <<>>
    /\ selector = [options |-> <<>>, value |-> "", display |-> "none"] /\ loads = <<>>
    /\ allRequests = <<>> /\ pc = "idle" /\ ids = <<>> /\ queryLog = <<>>
    /\ traceDataCache = <<>> /\ report = Null
    /\ harFiles = <<>> /\ fileIdx = 0 /\ mainPc = "idle" /\ zipEntries = <<>>
    /\ consoleLog = <<>> /\ archive = [written |-> FALSE]
    /\ rInput = MissingSpans /\ rReturned = FALSE /\ rOutput = <<>>

\* One call of renderNetworkGraph; with the container hidden it returns at once.
renderNetworkGraph ==
    /\ networkDisplay # "none"
    /\ cy' = [exists |-> TRUE, elements |-> GraphElements(currentDataItems)]
    /\ UNCHANGED <<currentDataItems, networkDisplay, registryVars, tracerVars, mainVars, reducerVars>>

NextGraph == renderNetworkGraph

SpecGraph == InitGraph /\ [][NextGraph]_vars

(***************************************************************************)
(* Claims about the graph, checked under SpecGraph                         *)
(***************************************************************************)
EdgeElements == { cy.elements[k] : k \in { j \in DOMAIN cy.elements : cy.elements[j].group = "edges" } }

\* The items with the parentId cleared on every span whose resolved parent has
\* the span's own node key.
WithoutSelfParents(items) ==
    [i \in DOMAIN items |->
        IF ~HasGraphData(items[i]) THEN items[i]
        ELSE [items[i] EXCEPT !.graphData =
                [k \in DOMAIN @ |->
                    LET src == SpanToNodeKey(@, @[k].parentId)
                    IN  IF /\ @[k].parentId # 0
                           /\ src.has
                           /\ src.key = getNodeKey(@[k].service, @[k].taskArn)
                        THEN [@[k] EXCEPT !.parentId = 0]
                        ELSE @[k]]]]

\* C10 as stated: in the graph built by renderNetworkGraph no edge has its
\* source equal to its target, and a span whose resolved parent has the same
\* node key adds no edge and changes no edge's count or total duration: the
\* graph is the one built without such parent links.
C10_NoSelfLoops ==
    cy.exists =>
        /\ \A e \in EdgeElements : e.source # e.target
        /\ cy.elements = GraphElements(WithoutSelfParents(currentDataItems))

\* The entries of the edges Map that renderNetworkGraph accumulates for items.
EdgeSet(items) == Range(Edges(items, 1, <<>>))

ItemOrders(n) == { f \in [1..n -> 1..n] : \A i, j \in 1..n : f[i] = f[j] => i = j }

Permuted(items, f) == [i \in DOMAIN items |-> items[f[i]]]

\* C11: graph aggregation is order-independent.  For every permutation of the
\* report's items renderNetworkGraph accumulates the same set of edges, each
\* with the same call count and the same total duration, and hands the same
\* set of edge elements to the graph.
C11_OrderIndependent ==
    cy.exists =>
        LET accumulated == EdgeSet(currentDataItems)
        IN  /\ \A f \in ItemOrders(Len(currentDataItems)) :
                   EdgeSet(Permuted(currentDataItems, f)) = accumulated
            /\ EdgeElements = { EdgeElement(e) : e \in accumulated }

\* Witness of C11: two different items add calls of different duration to the
\* same edge, and the graph was built.
C11_Witness ==
    /\ cy.exists
    /\ Len(currentDataItems) = 2
    /\ HasGraphData(currentDataItems[1])
    /\ HasGraphData(currentDataItems[2])
    /\ \E e \in EdgeSet(currentDataItems) :
          /\ e.count = 2
          /\ \E a \in EdgeSet(<<currentDataItems[1]>>), b \in EdgeSet(<<currentDataItems[2]>>) :
                /\ a.key = e.key
                /\ b.key = e.key
                /\ a.totalDuration # b.totalDuration

(***************************************************************************)
(* api-tracer.js: main, the loop over the HAR files                        *)
(***************************************************************************)
MaxFiles == 2

\* path.basename(harFilePath) + ".report-data.js"; the file at position i has
\* path i, so the paths, and with them the entry names, are pairwise distinct.
OutputFileName(i) == <<i, ".report-data.js">>

\* A HAR file on disk: whether fs.existsSync finds it, whether parseHarFile
\* gets through it (readable, valid JSON, has log.entries), and the candidate
\* requests parseHarFile returns for it.
HarFile(exists, parsable, requests) ==
    [exists |-> exists, parsable |-> parsable, requests |-> requests]

MainRequestLists ==
    { <<>>,
      << Request(1, "abc", [local |-> 2, tz |-> 0]) >>,
      << Request(1, "abc", [local |-> 3, tz |-> 1]), Request(2, "abc", [local |-> 2, tz |-> 0]) >> }

HarFileChoices ==
    { HarFile(FALSE, FALSE, <<>>), HarFile(TRUE, FALSE, <<>>) }
    \cup { HarFile(TRUE, TRUE, reqs) : reqs \in MainRequestLists }

InitMain ==
    /\ harFiles \in SeqsUpTo(HarFileChoices, MaxFiles) \ {<<>>}
    /\ fileIdx = 0
    /\ mainPc = "loop"
    /\ zipEntries = <<>>
    /\ consoleLog = <<>>
    /\ archive = [written |-> FALSE]
    /\ allRequests = <<>> /\ pc = "idle" /\ ids = <<>> /\ queryLog = <<>>
    /\ traceDataCache = <<>> /\ report = Null
    /\ rInput = MissingSpans /\ rReturned = FALSE /\ rOutput = <<>>
    /\ currentDataItems = <<>> /\ networkDisplay = "none" /\ cy = [exists |-> FALSE]
    /\ currentMetadata = EmptyObject /\ availableReports = <<>>
    /\ selector = [options |-> <<>>, value |-> "", display |-> "none"] /\ loads = <<>>

\* Mutant: a missing file ends the loop instead of continuing with the next file.
MainNextFile_BreakOnMissing ==
    /\ mainPc = "loop"
    /\ fileIdx < Len(harFiles)
    /\ LET i == fileIdx + 1
           f == harFiles[i]
           processing == Append(consoleLog, [tag |-> "Processing", file |-> i])
       IN  IF ~f.exists
           THEN /\ fileIdx' = Len(harFiles)
                /\ consoleLog' = Append(processing, [tag |-> "Skipped", file |-> i])
                /\ UNCHANGED <<mainPc, tracerVars>>
           ELSE /\ fileIdx' = i
                /\ IF ~f.parsable
                   THEN /\ consoleLog' = Append(processing, [tag |-> "Error", file |-> i])
                        /\ UNCHANGED <<mainPc, tracerVars>>
                   ELSE /\ consoleLog' = processing
                        /\ mainPc' = "run"
                        /\ allRequests' = f.requests
                        /\ pc' = "start"
                        /\ ids' = <<>> /\ queryLog' = <<>> /\ traceDataCache' = <<>>
                        /\ report' = Null
    /\ UNCHANGED <<harFiles, zipEntries, archive, reducerVars, viewerVars>>

\* The head of one loop iteration: a missing file is skipped; for a file that
\* exists processSingleHar is called, and parseHarFile either throws, which the
\* iteration's catch turns into an [Error] line, or returns the requests.
MainNextFile ==
    /\ mainPc = "loop"
    /\ fileIdx < Len(harFiles)
    /\ LET i == fileIdx + 1
           f == harFiles[i]
           processing == Append(consoleLog, [tag |-> "Processing", file |-> i])
       IN  /\ fileIdx' = i
           /\ IF ~f.exists
              THEN /\ consoleLog' = Append(processing, [tag |-> "Skipped", file |-> i])
                   /\ UNCHANGED <<mainPc, tracerVars>>
              ELSE IF ~f.parsable
              THEN /\ consoleLog' = Append(processing, [tag |-> "Error", file |-> i])
                   /\ UNCHANGED <<mainPc, tracerVars>>
              ELSE /\ consoleLog' = processing
                   /\ mainPc' = "run"
                   /\ allRequests' = f.requests
                   /\ pc' = "start"
                   /\ ids' = <<>> /\ queryLog' = <<>> /\ traceDataCache' = <<>>
                   /\ report' = Null
    /\ UNCHANGED <<harFiles, zipEntries, archive, reducerVars, viewerVars>>

\* The rest of the iteration once processSingleHar has resolved: a report is
\* added to the zip under the file's name, null adds nothing.
MainCollect ==
    /\ mainPc = "run"
    /\ pc = "done"
    /\ IF report # Null
       THEN /\ zipEntries' = Append(zipEntries, [name |-> OutputFileName(fileIdx), data |-> report])
            /\ consoleLog' = Append(consoleLog, [tag |-> "Success", file |-> fileIdx])
       ELSE UNCHANGED <<zipEntries, consoleLog>>
    /\ mainPc' = "loop"
    /\ UNCHANGED <<harFiles, fileIdx, archive, tracerVars, reducerVars, viewerVars>>

\* zip.writeZip after the loop.
WriteZip ==
    /\ mainPc = "loop"
    /\ fileIdx = Len(harFiles)
    /\ archive' = [written |-> TRUE, entries |-> zipEntries]
    /\ mainPc' = "written"
    /\ UNCHANGED <<harFiles, fileIdx, zipEntries, consoleLog, tracerVars, reducerVars, viewerVars>>

NextMain == MainNextFile \/ Start \/ QueryNext \/ MainCollect \/ WriteZip

SpecMain == InitMain /\ [][NextMain]_vars

\* The files whose iteration has run to its end.
Completed == IF mainPc = "run" THEN fileIdx - 1 ELSE fileIdx

FileOutcome(f) ==
    IF ~f.exists THEN "Skipped"
    ELSE IF ~f.parsable THEN "Error"
    ELSE IF Len(f.requests) = 0 THEN "Info"
    ELSE "Success"

RECURSIVE ExpectedLines(_)
ExpectedLines(n) ==
    IF n = 0 THEN <<>>
    ELSE ExpectedLines(n - 1)
         \o << [tag |-> "Processing", file |-> n],
               [tag |-> FileOutcome(harFiles[n]), file |-> n] >>

RECURSIVE ExpectedNames(_)
ExpectedNames(n) ==
    IF n = 0 THEN <<>>
    ELSE IF FileOutcome(harFiles[n]) = "Success"
         THEN Append(ExpectedNames(n - 1), OutputFileName(n))
         ELSE ExpectedNames(n - 1)

\* C12: no failure of one HAR file stops the others.  Every file gets its own
\* iteration whatever happened to the files before it: the console shows, in
\* file order, one outcome per completed file (skipped, error, the zero-match
\* warning, or success); only files that yielded a report have a zip entry, one
\* each and in file order; the run cannot stop before the archive is written,
\* and the archive is written after the last file with exactly those entries.
C12_FilesIsolated ==
    /\ consoleLog = ExpectedLines(Completed)
          \o (IF mainPc = "run" THEN << [tag |-> "Processing", file |-> fileIdx] >> ELSE <<>>)
          \o (IF mainPc = "run" /\ pc = "done" /\ report = Null
              THEN << [tag |-> "Info", file |-> fileIdx] >> ELSE <<>>)
    /\ [k \in DOMAIN zipEntries |-> zipEntries[k].name] = ExpectedNames(Completed)
    /\ \A k \in DOMAIN zipEntries : zipEntries[k].data # Null
    /\ mainPc # "written" => ENABLED NextMain
    /\ archive.written =>
          /\ Completed = Len(harFiles)
          /\ archive.entries = zipEntries

\* Witness of C12: the archive was written with an entry for a file that came
\* after a missing, an unparsable or a zero-match file.
C12_Witness ==
    /\ archive.written
    /\ Len(harFiles) = 2
    /\ FileOutcome(harFiles[1]) # "Success"
    /\ Len(archive.entries) = 1
    /\ archive.entries[1].name = OutputFileName(2)

\* The node keys of the spans of items.
NodeKeys(items) ==
    { getNodeKey(sp.service, sp.taskArn) :
        sp \in UNION { Range(items[i].graphData) : i \in { j \in DOMAIN items : HasGraphData(items[j]) } } }

\* The (item, span) pairs in which the span has key t and its parentId is the
\* spanId of a span with key s of the same item.
Calls(items, s, t) ==
    { <<i, k>> \in UNION { {i} \X DOMAIN items[i].graphData :
                              i \in { j \in DOMAIN items : HasGraphData(items[j]) } } :
         /\ getNodeKey(items[i].graphData[k].service, items[i].graphData[k].taskArn) = t
         /\ \E q \in DOMAIN items[i].graphData :
               /\ items[i].graphData[q].spanId = items[i].graphData[k].parentId
               /\ getNodeKey(items[i].graphData[q].service, items[i].graphData[q].taskArn) = s }

RECURSIVE SumDurations(_, _)
SumDurations(items, calls) ==
    IF calls = {} THEN 0
    ELSE LET c == CHOOSE x \in calls : TRUE
         IN  items[c[1]].graphData[c[2]].duration + SumDurations(items, calls \ {c})

\* What the edges Map holds for the pair (s, t): the entry under the key the
\* code builds for it, or no calls when there is none.
Accumulated(items, s, t) ==
    LET hits == { e \in EdgeSet(items) : e.key = EdgeKey(s, t) }
    IN  IF hits = {} THEN [count |-> 0, totalDuration |-> 0]
        ELSE LET e == CHOOSE x \in hits : TRUE
             IN  [count |-> e.count, totalDuration |-> e.totalDuration]

\* C13: for every ordered pair of distinct node keys (s, t) the accumulated
\* edge count is the number of (item, span) pairs whose span has key t and
\* whose parent, looked up in the same item, has key s, and the total duration
\* is the sum of those spans' durations; a parentId found only in another item
\* adds to no edge.
C13_EdgeTotals ==
    cy.exists =>
        \A s, t \in NodeKeys(currentDataItems) :
            s # t =>
                Accumulated(currentDataItems, s, t)
                    = [count |-> Cardinality(Calls(currentDataItems, s, t)),
                       totalDuration |-> SumDurations(currentDataItems, Calls(currentDataItems, s, t))]

\* The calls of the reducer's output that were built from the span at position
\* i (the spans of a list differ in their duration); sentinel calls have no
\* startTime.
CallsFrom(spans, i) ==
    { k \in DOMAIN rOutput :
        /\ "startTime" \in DOMAIN rOutput[k]
        /\ rOutput[k].duration = spans[i].duration
        /\ rOutput[k].startTime = spans[i].startTime }

\* C14: a span is a leaf candidate iff no span names it as parent and it carries
\* a url.full tag with a non-empty value.  Every candidate's URL is in the
\* output; a span that is a parent, or that has no such tag, is the origin of
\* no call of the output, and every call of the output that is not the
\* sentinel comes from a candidate and carries that candidate's URL.
C14_LeafCandidates ==
    (rReturned /\ HoldsSpanList(rInput)) =>
        LET spans == InputSpans(rInput)
        IN  /\ \A i \in Candidates(spans) :
                  \E k \in DOMAIN rOutput : rOutput[k].url = CandidateUrl(spans[i])
            /\ \A i \in DOMAIN spans \ Candidates(spans) : CallsFrom(spans, i) = {}
            /\ \A k \in DOMAIN rOutput :
                  \/ IsSentinelCall(rOutput[k]) /\ Candidates(spans) = {}
                  \/ \E i \in Candidates(spans) :
                        /\ k \in CallsFrom(spans, i)
                        /\ rOutput[k].url = CandidateUrl(spans[i])

\* Witness of C14: a span that carries a URL but is the parent of another span,
\* next to a candidate with a different URL; the output has the candidate only.
C14_Witness ==
    /\ rReturned
    /\ HoldsSpanList(rInput)
    /\ \E i, j \in DOMAIN InputSpans(rInput) :
          /\ NamedAsParent(InputSpans(rInput)[i], InputSpans(rInput))
          /\ CarriesUrl(InputSpans(rInput)[i])
          /\ j \in Candidates(InputSpans(rInput))
          /\ CandidateUrl(InputSpans(rInput)[i]) # CandidateUrl(InputSpans(rInput)[j])
          /\ Len(rOutput) = 1
          /\ rOutput[1].url = CandidateUrl(InputSpans(rInput)[j])

(***************************************************************************)
(* report-logic.js: the report registry, the loads and the view switches   *)
(*                                                                         *)
(* A load is the default zip fetched at startup or one upload.  Its steps  *)
(* are the continuations the event loop runs one at a time: the zip is     *)
(* opened, each entry's text arrives, all entries have arrived, the        *)
(* FileReader has read a single file.  Steps of different loads interleave *)
(* freely with each other and with the user's clicks.                      *)
(***************************************************************************)
MaxUploads == 2

\* The reports of different loads differ in their content.
OriginNames == <<"default", "upload1", "upload2", "upload3">>

FileNames == <<"a", "b", "c">>

ReportItems(origin, name) ==
    << [correlationId |-> origin,
        graphData |-> << [spanId |-> 1, parentId |-> 0, service |-> Str(name),
                          taskArn |-> <<>>, duration |-> 100000] >>] >>

\* A file written by api-tracer.js: window.registerReportData("<name>", {metadata, data});
ScriptContent(origin, name) ==
    [kind |-> "register", filename |-> name,
     data |-> [metadata |-> [harFile |-> name], data |-> ReportItems(origin, name)]]

\* A plain JSON array of report items.
JsonContent(origin, name) == [kind |-> "json", data |-> [array |-> ReportItems(origin, name)]]

ZipFile(valid, entries) == [isZip |-> TRUE, valid |-> valid, entries |-> entries]

SingleFile(name, content) == [isZip |-> FALSE, name |-> name, content |-> content]

DefaultZip ==
    ZipFile(TRUE, << [name |-> "a", content |-> ScriptContent("default", "a")],
                     [name |-> "b", content |-> ScriptContent("default", "b")] >>)

UploadChoices(origin) ==
    { ZipFile(TRUE, << [name |-> "a", content |-> ScriptContent(origin, "a")] >>),
      ZipFile(TRUE, << [name |-> "a", content |-> ScriptContent(origin, "a")],
                       [name |-> "b", content |-> JsonContent(origin, "b")] >>),
      ZipFile(FALSE, <<>>),
      SingleFile("c", JsonContent(origin, "c")),
      SingleFile("c", ScriptContent(origin, "c")) }

\* window.registerReportData
registerReportData(reports, filename, data) ==
    IF "data" \in DOMAIN data /\ "metadata" \in DOMAIN data
    THEN MapSet(reports, filename, data)
    ELSE MapSet(reports, filename, [metadata |-> [filename |-> filename], data |-> data.array])

\* The registry after processSingleContent(filename, content, _).
Registered(reports, filename, content) ==
    IF content.kind = "register"
    THEN registerReportData(reports, content.filename, content.data)
    ELSE registerReportData(reports, filename, content.data)

\* What renderNetworkGraph leaves in cy for items.
Rendered(items) ==
    IF networkDisplay = "none" THEN cy
    ELSE [exists |-> TRUE, elements |-> GraphElements(items)]

\* switchReport, with the registry and the selector as they are when it runs.
switchReport(reports, sel) ==
    IF sel.value = "" \/ sel.value \notin DOMAIN reports
    THEN UNCHANGED <<currentDataItems, currentMetadata, cy>>
    ELSE /\ currentDataItems' = reports[sel.value].data
         /\ currentMetadata' = reports[sel.value].metadata
         /\ cy' = Rendered(reports[sel.value].data)

\* Object.keys(availableReports).sort()
SortedKeys(reports) == SelectSeq(FileNames, LAMBDA n : n \in DOMAIN reports)

InitViewer ==
    /\ currentDataItems = <<>>
    /\ currentMetadata = EmptyObject
    /\ availableReports = <<>>
    /\ cy = [exists |-> FALSE]
    /\ networkDisplay \in {"none", "block"}
    /\ selector = [options |-> <<>>, value |-> "", display |-> "none"]
    /\ loads = << [file |-> DefaultZip, phase |-> "fetching", pending |-> {}] >>
    /\ allRequests = <<>> /\ pc = "idle" /\ ids = <<>> /\ queryLog = <<>>
    /\ traceDataCache = <<>> /\ report = Null
    /\ harFiles = <<>> /\ fileIdx = 0 /\ mainPc = "idle" /\ zipEntries = <<>>
    /\ consoleLog = <<>> /\ archive = [written |-> FALSE]
    /\ rInput = MissingSpans /\ rReturned = FALSE /\ rOutput = <<>>

\* tryLoadDefaultZip after the fetch: with a response that is ok the zip is
\* handed to processZipFile, otherwise (or when fetch rejects) nothing follows.
DefaultFetched ==
    /\ loads[1].phase = "fetching"
    /\ \E ok \in BOOLEAN :
          loads' = [loads EXCEPT ![1].phase = IF ok THEN "loading" ELSE "finished"]
    /\ UNCHANGED <<currentDataItems, currentMetadata, availableReports, cy, networkDisplay, selector>>
    /\ UNCHANGED <<tracerVars, mainVars, reducerVars>>

\* handleFileUpload up to its first await: the registry and the selector are
\* reset, then the zip starts to load or the FileReader starts to read.
handleFileUpload ==
    /\ Len(loads) < 1 + MaxUploads
    /\ \E file \in UploadChoices(OriginNames[Len(loads) + 1]) :
          loads' = Append(loads, [file |-> file,
                                  phase |-> IF file.isZip THEN "loading" ELSE "reading",
                                  pending |-> {}])
    /\ availableReports' = <<>>
    /\ selector' = [options |-> <<>>, value |-> "", display |-> "none"]
    /\ UNCHANGED <<currentDataItems, currentMetadata, cy, networkDisplay>>
    /\ UNCHANGED <<tracerVars, mainVars, reducerVars>>

\* processZipFile after zip.loadAsync: one read is started per entry; a file
\* that is no zip ends in the catch.
ZipLoaded ==
    \E l \in DOMAIN loads :
        /\ loads[l].file.isZip
        /\ loads[l].phase = "loading"
        /\ loads' = IF loads[l].file.valid
                    THEN [loads EXCEPT ![l].phase = "reading",
                                       ![l].pending = DOMAIN loads[l].file.entries]
                    ELSE [loads EXCEPT ![l].phase = "finished"]
        /\ UNCHANGED <<currentDataItems, currentMetadata, availableReports, cy, networkDisplay, selector>>
        /\ UNCHANGED <<tracerVars, mainVars, reducerVars>>

\* The text of one zip entry has arrived: processSingleContent(name, content, true).
EntryRead ==
    \E l \in DOMAIN loads :
        /\ loads[l].file.isZip
        /\ loads[l].phase = "reading"
        /\ \E e \in loads[l].pending :
              /\ availableReports' = Registered(availableReports, loads[l].file.entries[e].name,
                                                loads[l].file.entries[e].content)
              /\ loads' = [loads EXCEPT ![l].pending = @ \ {e}]
        /\ UNCHANGED <<currentDataItems, currentMetadata, cy, networkDisplay, selector>>
        /\ UNCHANGED <<tracerVars, mainVars, reducerVars>>

\* processZipFile after Promise.all: the selector is filled from the registry
\* as it is now, its first option chosen, and switchReport called.
AllRead ==
    \E l \in DOMAIN loads :
        /\ loads[l].file.isZip
        /\ loads[l].phase = "reading"
        /\ loads[l].pending = {}
        /\ loads' = [loads EXCEPT ![l].phase = "finished"]
        /\ LET filenames == SortedKeys(availableReports)
               filled == [options |-> filenames, value |-> filenames[1], display |-> "block"]
           IN  IF Len(filenames) > 0
               THEN /\ selector' = filled
                    /\ switchReport(availableReports, filled)
               ELSE UNCHANGED <<selector, currentDataItems, currentMetadata, cy>>
        /\ UNCHANGED <<availableReports, networkDisplay>>
        /\ UNCHANGED <<tracerVars, mainVars, reducerVars>>

\* reader.onload of a single uploaded file: processSingleContent(name, content),
\* which returns before switchReport for a registerReportData script.
ReaderLoaded ==
    \E l \in DOMAIN loads :
        /\ ~loads[l].file.isZip
        /\ loads[l].phase = "reading"
        /\ loads' = [loads EXCEPT ![l].phase = "finished"]
        /\ LET reports == Registered(availableReports, loads[l].file.name, loads[l].file.content)
           IN  /\ availableReports' = reports
               /\ IF loads[l].file.content.kind = "register"
                  THEN UNCHANGED <<currentDataItems, currentMetadata, cy>>
                  ELSE switchReport(reports, selector)
        /\ UNCHANGED <<networkDisplay, selector>>
        /\ UNCHANGED <<tracerVars, mainVars, reducerVars>>

\* The user picks an option of the selector, whose change handler is switchReport.
SelectReport ==
    /\ \E name \in Range(selector.options) :
          /\ selector' = [selector EXCEPT !.value = name]
          /\ switchReport(availableReports, [selector EXCEPT !.value = name])
    /\ UNCHANGED <<availableReports, networkDisplay, loads>>
    /\ UNCHANGED <<tracerVars, mainVars, reducerVars>>

\* window.switchView: with a graph instance the network view is only laid out
\* again, without one renderNetworkGraph is called.
switchView ==
    /\ \E viewName \in {"table", "network"} :
          /\ networkDisplay' = IF viewName = "network" THEN "block" ELSE "none"
          /\ cy' = IF viewName = "network" /\ ~cy.exists
                   THEN [exists |-> TRUE, elements |-> GraphElements(currentDataItems)]
                   ELSE cy
    /\ UNCHANGED <<currentDataItems, currentMetadata, availableReports, selector, loads>>
    /\ UNCHANGED <<tracerVars, mainVars, reducerVars>>

NextViewer ==
    \/ DefaultFetched
    \/ handleFileUpload
    \/ ZipLoaded
    \/ EntryRead
    \/ AllRead
    \/ ReaderLoaded
    \/ SelectReport
    \/ switchView

SpecViewer == InitViewer /\ [][NextViewer]_vars

\* C15: whenever the network view is displayed and a graph instance exists, the
\* graph holds the elements of the currently selected report's data items.
C15_GraphOfCurrentReport ==
    (networkDisplay # "none" /\ cy.exists) => cy.elements = GraphElements(currentDataItems)

\* The registry that the file of a load makes on its own.
ReportsOf(file) ==
    IF ~file.isZip THEN Registered(<<>>, file.name, file.content)
    ELSE IF ~file.valid THEN <<>>
    ELSE LET RECURSIVE From(_)
             From(n) == IF n = 0 THEN <<>>
                        ELSE Registered(From(n - 1), file.entries[n].name, file.entries[n].content)
         IN  From(Len(file.entries))

\* C16: once the most recent upload has finished loading, the registry holds
\* only reports that came from that upload.
C16_RegistryOfLastUpload ==
    (Len(loads) > 1 /\ loads[Len(loads)].phase = "finished") =>
        \A name \in DOMAIN availableReports :
            /\ name \in DOMAIN ReportsOf(loads[Len(loads)].file)
            /\ availableReports[name] = ReportsOf(loads[Len(loads)].file)[name]

====
